---------------------------- MODULE Spec2Model ----------------------------
(* A model of the method-extraction core of craw_java_method.py:            *)
(*   _brace_matched_end, tokenize_code, _strip_java_comments_for_check,     *)
(*   filter_invalid_methods and the record-building loop of                 *)
(*   extract_methods_from_file.                                             *)
(* Text is a sequence of one-character strings; a list of lines is a        *)
(* sequence of such sequences.  Python's None, an int result and a raised   *)
(* IndexError are tagged records, so that they can be compared.             *)
EXTENDS Integers, Sequences, FiniteSets

VARIABLES
    pc,          \* "ready" before the call under study, "done" after it
    code,        \* text of the source file (craw_java_method.py:181)
    lines,       \* code.splitlines() (craw_java_method.py:187)
    start_line,  \* argument of _brace_matched_end
    end_line,    \* its result
    text,        \* argument of tokenize_code
    tokens,      \* its result
    src,         \* argument of _strip_java_comments_for_check
    stripped,    \* its result, then the result of stripping that, ...
    methods,     \* argument of filter_invalid_methods
    min_lines,   \* argument of filter_invalid_methods
    max_lines,   \* argument of filter_invalid_methods
    cleaned,     \* result of filter_invalid_methods
    decls,       \* start lines of the MethodDeclaration nodes, in visiting order
    results      \* result of extract_methods_from_file

vars == <<pc, code, lines, start_line, end_line, text, tokens, src, stripped,
          methods, min_lines, max_lines, cleaned, decls, results>>

-----------------------------------------------------------------------------
(* Bounds of the model.                                                      *)

MaxCode == 6      \* longest file text of the brace-matching specification
MaxStart == 4     \* largest start_line of the brace-matching specification
MaxText == 4      \* longest text handed to tokenize_code, the example apart
MaxSrc == 8       \* longest text handed to _strip_java_comments_for_check
MaxCalls == 2     \* number of successive strippings
MaxMethods == 2   \* longest batch handed to filter_invalid_methods
MaxBodyLines == 2 \* most lines of a method text of such a batch
MaxThreshold == 2 \* largest min_lines and max_lines
MaxFile == 4      \* longest file text handed to extract_methods_from_file
MaxDecls == 2     \* most method declarations of a file
MaxDeclLine == 3  \* largest line a declaration is reported at

-----------------------------------------------------------------------------
(* Python values.                                                            *)

None == [tag |-> "None"]
Int_(n) == [tag |-> "int", val |-> n]
IndexError == [tag |-> "IndexError"]
IsInt(v) == v.tag = "int"

Texts(alphabet, n) == UNION {[1..k -> alphabet] : k \in 0..n}

Min(S) == CHOOSE m \in S : \A k \in S : m <= k

-----------------------------------------------------------------------------
(* str.count(ch) and `ch in str` for a one-character ch.                     *)

count(line, ch) == Cardinality({k \in 1..Len(line) : line[k] = ch})

contains(line, ch) == \E k \in 1..Len(line) : line[k] = ch

(* str.splitlines(): the text cut at its line boundaries, the boundaries     *)
(* dropped, no empty last line after a final boundary.  "\r\n" is one        *)
(* boundary.                                                                 *)
LineBreaks == {"\n", "\r", "\f"}

RECURSIVE SplitFrom(_, _, _)
SplitFrom(s, p, cur) ==
    IF p > Len(s) THEN (IF cur = <<>> THEN <<>> ELSE <<cur>>)
    ELSE IF s[p] = "\r" /\ p < Len(s) /\ s[p + 1] = "\n"
         THEN <<cur>> \o SplitFrom(s, p + 2, <<>>)
    ELSE IF s[p] \in LineBreaks THEN <<cur>> \o SplitFrom(s, p + 1, <<>>)
    ELSE SplitFrom(s, p + 1, Append(cur, s[p]))

splitlines(s) == SplitFrom(s, 1, <<>>)

-----------------------------------------------------------------------------
(* _brace_matched_end(lines, start_line), craw_java_method.py:149-174.       *)
(* Indices are Python's: 0-based, a negative index counting from the end,    *)
(* an index outside -len..len-1 raising IndexError.                          *)

InRange(ls, i) == -Len(ls) <= i /\ i < Len(ls)

At(ls, i) == IF i >= 0 THEN ls[i + 1] ELSE ls[Len(ls) + i + 1]

(* The while loop of lines 164-165: the value of open_i when it ends.        *)
RECURSIVE FirstOpenOffByOne(_, _)
FirstOpenOffByOne(ls, open_i) ==
    IF open_i <= Len(ls)
    THEN IF ~InRange(ls, open_i) THEN IndexError
         ELSE IF ~contains(At(ls, open_i), "{")
              THEN FirstOpenOffByOne(ls, open_i + 1)
              ELSE Int_(open_i)
    ELSE Int_(open_i)

RECURSIVE FirstOpen(_, _)
FirstOpen(ls, open_i) ==
    IF open_i < Len(ls)
    THEN IF ~InRange(ls, open_i) THEN IndexError
         ELSE IF ~contains(At(ls, open_i), "{")
              THEN FirstOpen(ls, open_i + 1)
              ELSE Int_(open_i)
    ELSE Int_(open_i)

(* The for loop of lines 169-173, entered at j with the given depth.         *)
RECURSIVE DepthScanReturnsIndex(_, _, _)
DepthScanReturnsIndex(ls, j, depth) ==
    IF j >= Len(ls) THEN None
    ELSE LET d == depth + count(ls[j + 1], "{") - count(ls[j + 1], "}")
         IN  IF d = 0 THEN Int_(j) ELSE DepthScanReturnsIndex(ls, j + 1, d)

RECURSIVE DepthScan(_, _, _)
DepthScan(ls, j, depth) ==
    IF j >= Len(ls) THEN None
    ELSE LET d == depth + count(ls[j + 1], "{") - count(ls[j + 1], "}")
         IN  IF d = 0 THEN Int_(j + 1) ELSE DepthScan(ls, j + 1, d)

BraceMatchedEndFromStart(ls, start) ==
    LET open_i == FirstOpen(ls, start - 1)
    IN  IF open_i = IndexError THEN IndexError
        ELSE IF open_i.val >= Len(ls) THEN None
        ELSE DepthScan(ls, start - 1, 0)

_brace_matched_end(ls, start) ==
    LET open_i == FirstOpen(ls, start - 1)
    IN  IF open_i = IndexError THEN IndexError
        ELSE IF open_i.val >= Len(ls) THEN None
        ELSE DepthScan(ls, open_i.val, 0)

-----------------------------------------------------------------------------
(* Brace matching: the specification.                                        *)

BraceAlphabet == {"{", "}", "x", "\n"}

IdleTokenizer == text = <<>> /\ tokens = <<>>
IdleStripper == src = <<>> /\ stripped = <<>>
IdleFilter == methods = <<>> /\ min_lines = 0 /\ max_lines = 0 /\ cleaned = <<>>
IdleExtractor == decls = <<>> /\ results = <<>>

InitBrace ==
    /\ pc = "ready"
    /\ code \in Texts(BraceAlphabet, MaxCode)
    /\ lines = splitlines(code)
    /\ start_line \in 1..MaxStart
    /\ end_line = None
    /\ IdleTokenizer /\ IdleStripper /\ IdleFilter /\ IdleExtractor

CallBraceMatchedEnd ==
    /\ pc = "ready"
    /\ end_line' = _brace_matched_end(lines, start_line)
    /\ pc' = "done"
    /\ UNCHANGED <<code, lines, start_line, text, tokens, src, stripped,
                   methods, min_lines, max_lines, cleaned, decls, results>>

NextBrace == CallBraceMatchedEnd

SpecBrace == InitBrace /\ [][NextBrace]_vars

-----------------------------------------------------------------------------
(* Brace matching: what the claims speak of, stated on the text itself.      *)

IsBrace(c) == c \in {"{", "}"}

(* The braces of lines k, k+1, ... in reading order, each with its line.     *)
RECURSIVE BracesFrom(_, _)
BracesFrom(ls, k) ==
    IF k > Len(ls) THEN <<>>
    ELSE LET bc == SelectSeq(ls[k], IsBrace)
         IN  [i \in 1..Len(bc) |-> <<k, bc[i]>>] \o BracesFrom(ls, k + 1)

(* Opening minus closing braces among B[f..i].                               *)
CharDepth(B, f, i) ==
    Cardinality({k \in f..i : B[k][2] = "{"}) - Cardinality({k \in f..i : B[k][2] = "}"})

(* The lines at or after s that contain an opening brace.                    *)
OpenLines(ls, s) == {k \in s..Len(ls) : contains(ls[k], "{")}

(* Opening minus closing braces of lines o..j.                               *)
RECURSIVE NetOfLines(_, _, _)
NetOfLines(ls, o, j) ==
    IF j < o THEN 0
    ELSE NetOfLines(ls, o, j - 1) + count(ls[j], "{") - count(ls[j], "}")

ZeroLines(ls, o) == {j \in o..Len(ls) : NetOfLines(ls, o, j) = 0}

(* The braces from the line of the first "{" on, the place of that first     *)
(* "{" among them, and the places at which it is closed.                     *)
BlockBraces == BracesFrom(lines, Min(OpenLines(lines, start_line)))
FirstBrace == Min({i \in 1..Len(BlockBraces) : BlockBraces[i][2] = "{"})
Closings == {i \in FirstBrace..Len(BlockBraces) : CharDepth(BlockBraces, FirstBrace, i) = 0}
HasMatch == OpenLines(lines, start_line) # {} /\ Closings # {}
MatchLine == BlockBraces[Min(Closings)][1]

(* Opening minus closing braces written after the matching "}" on its line.  *)
NetAfterMatch ==
    LET after == {i \in (Min(Closings) + 1)..Len(BlockBraces) : BlockBraces[i][1] = MatchLine}
    IN  Cardinality({i \in after : BlockBraces[i][2] = "{"})
          - Cardinality({i \in after : BlockBraces[i][2] = "}"})

(* The text from start_line on is a well-formed nested-brace block: its      *)
(* braces are balanced, none closes what was not opened, and there is one.   *)
WellFormedBlock ==
    LET W == BracesFrom(lines, start_line)
    IN  /\ start_line <= Len(lines)
        /\ Len(W) > 0
        /\ \A i \in 1..Len(W) : CharDepth(W, 1, i) >= 0
        /\ CharDepth(W, 1, Len(W)) = 0

(* C1, as claimed: for a well-formed nested-brace block starting at          *)
(* start_line, _brace_matched_end returns the line of the "}" that matches   *)
(* the first "{", whatever else that line carries.                           *)
C1_AsClaimed ==
    (pc = "done" /\ WellFormedBlock) => end_line = Int_(MatchLine)

(* C1, amended: when the first "{" at or after start_line has no "}" before  *)
(* it on its line and its matching "}" is on line e, _brace_matched_end      *)
(* returns e exactly when the braces written after that "}" on line e are    *)
(* as many opening as closing; otherwise it does not return e.               *)
C1_MatchWhenLineBalanced ==
    (pc = "done" /\ HasMatch /\ FirstBrace = 1)
        => (end_line = Int_(MatchLine) <=> NetAfterMatch = 0)

(* A nested block whose closing line carries further, balanced braces.       *)
C1_Witness ==
    /\ pc = "done" /\ HasMatch /\ FirstBrace = 1
    /\ NetAfterMatch = 0
    /\ MatchLine > Min(OpenLines(lines, start_line))
    /\ \E i \in 1..Len(BlockBraces) : i > Min(Closings) /\ BlockBraces[i][1] = MatchLine
    /\ end_line = Int_(MatchLine)

(* C2: a returned line e is the first line j >= o at which the braces of     *)
(* lines o..j sum to zero, o being the first line at or after start_line     *)
(* that contains "{"; and start_line <= o <= e <= len(lines).                *)
C2_FirstZeroCrossing ==
    (pc = "done" /\ IsInt(end_line)) =>
        /\ OpenLines(lines, start_line) # {}
        /\ LET o == Min(OpenLines(lines, start_line))
           IN  /\ ZeroLines(lines, o) # {}
               /\ end_line.val = Min(ZeroLines(lines, o))
               /\ start_line <= o /\ o <= end_line.val /\ end_line.val <= Len(lines)

(* A declaration whose "{" is on a later line, closed on a later line yet.   *)
C2_Witness ==
    /\ pc = "done" /\ IsInt(end_line)
    /\ Min(OpenLines(lines, start_line)) > start_line
    /\ end_line.val > Min(OpenLines(lines, start_line))

(* No line from start_line on closes the block.                              *)
NoBoundary ==
    \/ start_line > Len(lines)
    \/ OpenLines(lines, start_line) = {}
    \/ ZeroLines(lines, Min(OpenLines(lines, start_line))) = {}

(* C3: _brace_matched_end never raises; it returns None exactly when         *)
(* start_line is past the last line, or no line from start_line on has a     *)
(* "{", or the depth is nonzero at the end of every line; otherwise it       *)
(* returns a line number.                                                    *)
C3_NoneExactlyWhenNoBoundary ==
    pc = "done" =>
        /\ end_line # IndexError
        /\ end_line = None <=> NoBoundary
        /\ ~NoBoundary => (IsInt(end_line) /\ end_line.val \in 1..Len(lines))

(* An opening brace that is never closed.                                    *)
C3_Witness ==
    /\ pc = "done"
    /\ OpenLines(lines, start_line) # {}
    /\ ZeroLines(lines, Min(OpenLines(lines, start_line))) = {}
    /\ end_line = None

-----------------------------------------------------------------------------
(* tokenize_code(text), craw_java_method.py:139-145: re.findall of the       *)
(* pattern                                                                   *)
(*   [A-Za-z_][A-Za-z0-9_]*|\d+|".*?"|'.*?'|==|!=|<=|>=|&&|\|\||[^\s]        *)
(* with re.S.  At a position the alternatives are tried from left to right   *)
(* and the first that matches is taken; each operator below gives the last   *)
(* position of an alternative's match at p, or 0 when it does not match.     *)

Letters ==
    {"a", "b", "c", "d", "e", "f", "g", "h", "i", "j", "k", "l", "m",
     "n", "o", "p", "q", "r", "s", "t", "u", "v", "w", "x", "y", "z",
     "A", "B", "C", "D", "E", "F", "G", "H", "I", "J", "K", "L", "M",
     "N", "O", "P", "Q", "R", "S", "T", "U", "V", "W", "X", "Y", "Z"}
Digits == {"0", "1", "2", "3", "4", "5", "6", "7", "8", "9"}
IdentStart == Letters \cup {"_"}
IdentPart == Letters \cup Digits \cup {"_"}
Whitespace == {" ", "\t", "\n", "\r", "\f"}
Operators == {<<"=", "=">>, <<"!", "=">>, <<"<", "=">>, <<">", "=">>,
              <<"&", "&">>, <<"|", "|">>}

(* X* at p, greedy: the last position of the longest run of X from p, p - 1  *)
(* when there is none.                                                        *)
RECURSIVE Star(_, _, _)
Star(t, p, class) ==
    IF p <= Len(t) /\ t[p] \in class THEN Star(t, p + 1, class) ELSE p - 1

(* q.*?q at p, lazy and with re.S: up to the nearest q after p.              *)
RECURSIVE LazyUpTo(_, _, _)
LazyUpTo(t, k, q) ==
    IF k > Len(t) THEN 0 ELSE IF t[k] = q THEN k ELSE LazyUpTo(t, k + 1, q)

(* q.*q, greedy: up to the last q after p.                                   *)
RECURSIVE GreedyUpTo(_, _, _)
GreedyUpTo(t, k, q) ==
    IF k > Len(t) THEN 0
    ELSE LET later == GreedyUpTo(t, k + 1, q)
         IN  IF later # 0 THEN later ELSE IF t[k] = q THEN k ELSE 0

MatchIdent(t, p) == IF t[p] \in IdentStart THEN Star(t, p + 1, IdentPart) ELSE 0
MatchNumber(t, p) == IF t[p] \in Digits THEN Star(t, p + 1, Digits) ELSE 0
MatchQuoted(t, p, q) == IF t[p] = q THEN LazyUpTo(t, p + 1, q) ELSE 0
MatchOperator(t, p) ==
    IF p < Len(t) /\ <<t[p], t[p + 1]>> \in Operators THEN p + 1 ELSE 0
MatchOther(t, p) == IF t[p] \notin Whitespace THEN p ELSE 0

(* The greedy quoted alternative, ".*" in place of ".*?".                    *)
MatchEndGreedyQuotes(t, p) ==
    LET alts == << MatchIdent(t, p), MatchNumber(t, p),
                   IF t[p] = "\"" THEN GreedyUpTo(t, p + 1, "\"") ELSE 0,
                   IF t[p] = "'" THEN GreedyUpTo(t, p + 1, "'") ELSE 0,
                   MatchOperator(t, p), MatchOther(t, p) >>
        hit == {k \in 1..Len(alts) : alts[k] # 0}
    IN  IF hit = {} THEN 0 ELSE alts[Min(hit)]

(* The alternatives with [^\s] tried before the two-character operators.     *)
MatchEndOtherFirst(t, p) ==
    LET alts == << MatchIdent(t, p), MatchNumber(t, p), MatchQuoted(t, p, "\""),
                   MatchQuoted(t, p, "'"), MatchOther(t, p), MatchOperator(t, p) >>
        hit == {k \in 1..Len(alts) : alts[k] # 0}
    IN  IF hit = {} THEN 0 ELSE alts[Min(hit)]

(* The pattern without its last alternative, [^\s].                          *)
MatchEndNoFallback(t, p) ==
    LET alts == << MatchIdent(t, p), MatchNumber(t, p), MatchQuoted(t, p, "\""),
                   MatchQuoted(t, p, "'"), MatchOperator(t, p) >>
        hit == {k \in 1..Len(alts) : alts[k] # 0}
    IN  IF hit = {} THEN 0 ELSE alts[Min(hit)]

(* The whole pattern at p: the first alternative that matches.               *)
MatchEnd(t, p) ==
    LET alts == << MatchIdent(t, p), MatchNumber(t, p), MatchQuoted(t, p, "\""),
                   MatchQuoted(t, p, "'"), MatchOperator(t, p), MatchOther(t, p) >>
        hit == {k \in 1..Len(alts) : alts[k] # 0}
    IN  IF hit = {} THEN 0 ELSE alts[Min(hit)]

(* re.findall from position p: where the pattern does not match the scan     *)
(* moves on by one character, after a match it resumes behind the match.     *)
RECURSIVE FindAll(_, _)
FindAll(t, p) ==
    IF p > Len(t) THEN <<>>
    ELSE LET e == MatchEnd(t, p)
         IN  IF e = 0 THEN FindAll(t, p + 1)
             ELSE <<SubSeq(t, p, e)>> \o FindAll(t, e + 1)

tokenize_code(t) == FindAll(t, 1)

-----------------------------------------------------------------------------
(* Tokenizing: the specification.                                            *)

TokenAlphabet == {"a", "1", "\"", "'", "=", "!", " ", "\n", "\\"}

(* The text of the specification's tokenizing example, and its tokens.       *)
ExampleText ==
    <<"f", "o", "o", "1", "2", "3", " ", "4", "2", " ",
      "\"", "a", " ", "b", "\"", " ", "'", "c", "'", " ",
      "=", "=", " ", "!", "=", " ", "<", "=", " ", ">",
      "=", " ", "&", "&", " ", "|", "|", " ", "@">>
ExampleTokens ==
    <<<<"f", "o", "o", "1", "2", "3">>,
      <<"4", "2">>,
      <<"\"", "a", " ", "b", "\"">>,
      <<"'", "c", "'">>,
      <<"=", "=">>,
      <<"!", "=">>,
      <<"<", "=">>,
      <<">", "=">>,
      <<"&", "&">>,
      <<"|", "|">>,
      <<"@">>>>

IdleBrace == code = <<>> /\ lines = <<>> /\ start_line = 1 /\ end_line = None

InitTokenize ==
    /\ pc = "ready"
    /\ text \in Texts(TokenAlphabet, MaxText) \cup {ExampleText}
    /\ tokens = <<>>
    /\ IdleBrace /\ IdleStripper /\ IdleFilter /\ IdleExtractor

CallTokenizeCode ==
    /\ pc = "ready"
    /\ tokens' = tokenize_code(text)
    /\ pc' = "done"
    /\ UNCHANGED <<code, lines, start_line, end_line, text, src, stripped,
                   methods, min_lines, max_lines, cleaned, decls, results>>

NextTokenize == CallTokenizeCode

SpecTokenize == InitTokenize /\ [][NextTokenize]_vars

-----------------------------------------------------------------------------
(* Tokenizing: what the claims speak of, stated on the text itself.          *)

Max(S) == CHOOSE m \in S : \A k \in S : m >= k

Quotes == {"\"", "'"}

(* The scanner of the specification at a non-whitespace position i: the      *)
(* last position of the token that starts there.                             *)
ScanEnd(t, i) ==
    IF t[i] \in IdentStart
    THEN Max({q \in i..Len(t) : \A k \in (i + 1)..q : t[k] \in IdentPart})
    ELSE IF t[i] \in Digits
    THEN Max({q \in i..Len(t) : \A k \in i..q : t[k] \in Digits})
    ELSE IF t[i] \in Quotes /\ \E q \in (i + 1)..Len(t) : t[q] = t[i]
    THEN Min({q \in (i + 1)..Len(t) : t[q] = t[i]})
    ELSE IF i < Len(t) /\ <<t[i], t[i + 1]>> \in Operators
    THEN i + 1
    ELSE i

RECURSIVE Scanner(_, _)
Scanner(t, i) ==
    IF i > Len(t) THEN <<>>
    ELSE IF t[i] \in Whitespace THEN Scanner(t, i + 1)
    ELSE <<SubSeq(t, i, ScanEnd(t, i))>> \o Scanner(t, ScanEnd(t, i) + 1)

(* The first non-whitespace position at or after p, Len(t) + 1 if none.      *)
NextInk(t, p) == Min({i \in p..Len(t) : t[i] \notin Whitespace} \cup {Len(t) + 1})

(* Where the tokens toks[k], toks[k+1], ... lie in t when laid from p on,    *)
(* each at the next non-whitespace position; 0 ends the list at a token      *)
(* that is not found there.                                                  *)
RECURSIVE Places(_, _, _, _)
Places(t, toks, k, p) ==
    IF k > Len(toks) THEN <<>>
    ELSE LET i == NextInk(t, p)
             n == Len(toks[k])
         IN  IF n > 0 /\ i + n - 1 <= Len(t) /\ SubSeq(t, i, i + n - 1) = toks[k]
             THEN <<i>> \o Places(t, toks, k + 1, i + n)
             ELSE <<0>>

(* The tokens are disjoint substrings of t in left-to-right order, and       *)
(* every character of t outside them is whitespace.                          *)
Covers(t, toks) ==
    LET P == Places(t, toks, 1, 1)
        rest == IF toks = <<>> THEN 1 ELSE P[Len(P)] + Len(toks[Len(toks)])
    IN  /\ Len(P) = Len(toks)
        /\ \A k \in 1..Len(P) : P[k] # 0
        /\ NextInk(t, rest) = Len(t) + 1

RECURSIVE Concat(_)
Concat(toks) == IF toks = <<>> THEN <<>> ELSE Head(toks) \o Concat(Tail(toks))

IsInk(c) == c \notin Whitespace
Ink(t) == SelectSeq(t, IsInk)

IsQuotedString(tok) == Len(tok) >= 2 /\ tok[1] \in Quotes /\ tok[Len(tok)] = tok[1]

(* C8: tokenize_code is the left-to-right scanner of the six rules in their  *)
(* order, whitespace skipped; the empty text gives no token and the example  *)
(* text gives exactly the example's eleven tokens.                           *)
C8_TokenizeIsScanner ==
    pc = "done" =>
        /\ tokens = Scanner(text, 1)
        /\ text = <<>> => tokens = <<>>
        /\ text = ExampleText => tokens = ExampleTokens

(* The example text has been tokenized.                                      *)
C8_Witness == pc = "done" /\ text = ExampleText /\ tokens = ExampleTokens

(* C9: a token that starts at a quote character ends at the very next        *)
(* occurrence of that character in the text (and is the quote alone when     *)
(* there is none), a backslash or a newline before it notwithstanding.       *)
C9_QuoteEndsAtNextQuote ==
    pc = "done" =>
        /\ Covers(text, tokens)
        /\ LET P == Places(text, tokens, 1, 1)
           IN  \A k \in 1..Len(tokens) :
                 tokens[k][1] \in Quotes =>
                   LET later == {j \in (P[k] + 1)..Len(text) : text[j] = tokens[k][1]}
                   IN  IF later = {} THEN Len(tokens[k]) = 1
                       ELSE /\ P[k] + Len(tokens[k]) - 1 = Min(later)
                            /\ IsQuotedString(tokens[k])
                            /\ \A j \in 2..(Len(tokens[k]) - 1) : tokens[k][j] # tokens[k][1]

(* A literal with an escaped quote: the token ends at the escaped quote and  *)
(* the rest is tokenized on its own.                                         *)
C9_Witness ==
    /\ pc = "done"
    /\ \E k \in 1..(Len(tokens) - 1) :
         /\ IsQuotedString(tokens[k])
         /\ Len(tokens[k]) >= 3
         /\ tokens[k][Len(tokens[k]) - 1] = "\\"
         /\ tokens[k + 1] = <<tokens[k][1]>>

(* C10: no non-whitespace character is lost: every token is non-empty and    *)
(* has a non-whitespace character, the tokens are disjoint substrings of the *)
(* text in order with only whitespace between them, so the tokens and the    *)
(* text agree once whitespace is deleted; and only a quoted string holds     *)
(* whitespace.                                                               *)
C10_NoInkLost ==
    pc = "done" =>
        /\ \A k \in 1..Len(tokens) : Ink(tokens[k]) # <<>>
        /\ Covers(text, tokens)
        /\ Ink(Concat(tokens)) = Ink(text)
        /\ \A k \in 1..Len(tokens) :
             Ink(tokens[k]) # tokens[k] => IsQuotedString(tokens[k])

(* Whitespace inside a quoted token and whitespace between tokens.           *)
C10_Witness ==
    /\ pc = "done"
    /\ \E k \in 1..Len(tokens) : Ink(tokens[k]) # tokens[k]
    /\ Len(Concat(tokens)) < Len(text)
    /\ Len(tokens) >= 2

-----------------------------------------------------------------------------
(* _strip_java_comments_for_check(src), craw_java_method.py:112-114:         *)
(* re.sub of the pattern  //.*?$|/\*.*?\*/  by the empty string, with re.M   *)
(* and re.S: "." matches a newline too, "$" matches at the end of the text   *)
(* and before each "\n".                                                      *)

(* //.*?$ at p: the lazy .*? stops at the first place where $ matches.       *)
RECURSIVE LazyToLineEnd(_, _)
LazyToLineEnd(t, k) ==
    IF k > Len(t) \/ t[k] = "\n" THEN k - 1 ELSE LazyToLineEnd(t, k + 1)

MatchLineComment(t, p) ==
    IF p < Len(t) /\ t[p] = "/" /\ t[p + 1] = "/" THEN LazyToLineEnd(t, p + 2) ELSE 0

(* /\*.*?\*/ at p: the lazy .*? stops before the nearest "*/" at or after    *)
(* p + 2.                                                                    *)
RECURSIVE LazyToBlockEnd(_, _)
LazyToBlockEnd(t, k) ==
    IF k >= Len(t) THEN 0
    ELSE IF t[k] = "*" /\ t[k + 1] = "/" THEN k + 1
    ELSE LazyToBlockEnd(t, k + 1)

MatchBlockComment(t, p) ==
    IF p < Len(t) /\ t[p] = "/" /\ t[p + 1] = "*" THEN LazyToBlockEnd(t, p + 2) ELSE 0

MatchComment(t, p) ==
    IF MatchLineComment(t, p) # 0 THEN MatchLineComment(t, p) ELSE MatchBlockComment(t, p)

(* Two substitutions, the block comments first and the line comments after.  *)
RECURSIVE SubEmptyBlocks(_, _)
SubEmptyBlocks(t, p) ==
    IF p > Len(t) THEN <<>>
    ELSE IF MatchBlockComment(t, p) # 0 THEN SubEmptyBlocks(t, MatchBlockComment(t, p) + 1)
    ELSE <<t[p]>> \o SubEmptyBlocks(t, p + 1)

RECURSIVE SubEmptyLines(_, _)
SubEmptyLines(t, p) ==
    IF p > Len(t) THEN <<>>
    ELSE IF MatchLineComment(t, p) # 0 THEN SubEmptyLines(t, MatchLineComment(t, p) + 1)
    ELSE <<t[p]>> \o SubEmptyLines(t, p + 1)

StripInTwoPasses(t) == SubEmptyLines(SubEmptyBlocks(t, 1), 1)

(* re.sub(pattern, '', t) from position p: a match is dropped and the scan   *)
(* resumes behind it, any other character is kept.                           *)
RECURSIVE SubEmpty(_, _)
SubEmpty(t, p) ==
    IF p > Len(t) THEN <<>>
    ELSE IF MatchComment(t, p) # 0 THEN SubEmpty(t, MatchComment(t, p) + 1)
    ELSE <<t[p]>> \o SubEmpty(t, p + 1)

_strip_java_comments_for_check(t) == SubEmpty(t, 1)

-----------------------------------------------------------------------------
(* Comment stripping: the specification.  The function is applied to a text  *)
(* and then to its own result.                                               *)

CommentAlphabet == {"/", "*", "\n", "x"}

InitStrip ==
    /\ pc = "ready"
    /\ src \in Texts(CommentAlphabet, MaxSrc)
    /\ stripped = <<>>
    /\ IdleBrace /\ IdleTokenizer /\ IdleFilter /\ IdleExtractor

CallStripComments ==
    /\ Len(stripped) < MaxCalls
    /\ stripped' = Append(stripped, _strip_java_comments_for_check(
                       IF stripped = <<>> THEN src ELSE stripped[Len(stripped)]))
    /\ pc' = "done"
    /\ UNCHANGED <<code, lines, start_line, end_line, text, tokens, src,
                   methods, min_lines, max_lines, cleaned, decls, results>>

NextStrip == CallStripComments

SpecStrip == InitStrip /\ [][NextStrip]_vars

(* C6: stripping the comments of an already stripped text changes nothing.   *)
C6_StripIdempotent ==
    \A k \in 2..Len(stripped) : stripped[k] = stripped[k - 1]

(* A text stripped twice whose first stripping removed a comment and left    *)
(* both a "/" and a "*" behind.                                              *)
C6_Witness ==
    /\ Len(stripped) >= 2
    /\ stripped[1] # src
    /\ contains(stripped[1], "/") /\ contains(stripped[1], "*")
    /\ stripped[2] = stripped[1]

-----------------------------------------------------------------------------
(* The record built at craw_java_method.py:198-205.  The signature is a      *)
(* string made of the declaration node's own attributes (line 194).          *)

Signature(name) == <<"signature", name>>

MethodRecord(name, start, end, original_code, code_tokens) ==
    [method_name |-> name, start_line |-> start, end_line |-> end,
     signature |-> Signature(name), original_code |-> original_code,
     code_tokens |-> code_tokens]

(* "\n".join(ls)                                                             *)
RECURSIVE JoinLines(_)
JoinLines(ls) ==
    IF ls = <<>> THEN <<>>
    ELSE IF Len(ls) = 1 THEN ls[1]
    ELSE ls[1] \o <<"\n">> \o JoinLines(Tail(ls))

-----------------------------------------------------------------------------
(* filter_invalid_methods(methods, min_lines, max_lines),                    *)
(* craw_java_method.py:117-136.                                              *)

(* l.strip() is non-empty                                                    *)
HasInk(l) == \E k \in 1..Len(l) : l[k] \notin Whitespace

(* Lines 126-127: the non-blank lines of the comment-stripped text.          *)
CodeLines(m) ==
    LET check_code == _strip_java_comments_for_check(m.original_code)
    IN  SelectSeq(splitlines(check_code), HasInk)

(* The loop of lines 124-135 from the k-th method on.                        *)
RECURSIVE FilterLoopInclusive(_, _, _, _, _)
FilterLoopInclusive(ms, k, out, min, max) ==
    IF k > Len(ms) THEN out
    ELSE LET code_lines == CodeLines(ms[k])
         IN  IF Len(code_lines) = 0
             THEN FilterLoopInclusive(ms, k + 1, out, min, max)
             ELSE IF Len(code_lines) <= min \/ Len(code_lines) >= max
             THEN FilterLoopInclusive(ms, k + 1, out, min, max)
             ELSE FilterLoopInclusive(ms, k + 1, Append(out, ms[k]), min, max)

RECURSIVE FilterLoopDeduplicating(_, _, _, _, _)
FilterLoopDeduplicating(ms, k, out, min, max) ==
    IF k > Len(ms) THEN out
    ELSE LET code_lines == CodeLines(ms[k])
         IN  IF Len(code_lines) = 0
             THEN FilterLoopDeduplicating(ms, k + 1, out, min, max)
             ELSE IF Len(code_lines) < min \/ Len(code_lines) > max
             THEN FilterLoopDeduplicating(ms, k + 1, out, min, max)
             ELSE IF \E i \in 1..Len(out) : out[i] = ms[k]
             THEN FilterLoopDeduplicating(ms, k + 1, out, min, max)
             ELSE FilterLoopDeduplicating(ms, k + 1, Append(out, ms[k]), min, max)

RECURSIVE FilterLoop(_, _, _, _, _)
FilterLoop(ms, k, out, min, max) ==
    IF k > Len(ms) THEN out
    ELSE LET code_lines == CodeLines(ms[k])
         IN  IF Len(code_lines) = 0
             THEN FilterLoop(ms, k + 1, out, min, max)
             ELSE IF Len(code_lines) < min \/ Len(code_lines) > max
             THEN FilterLoop(ms, k + 1, out, min, max)
             ELSE FilterLoop(ms, k + 1, Append(out, ms[k]), min, max)

FilterWithInclusiveBounds(ms, min, max) == FilterLoopInclusive(ms, 1, <<>>, min, max)

FilterAndDeduplicate(ms, min, max) == FilterLoopDeduplicating(ms, 1, <<>>, min, max)

filter_invalid_methods(ms, min, max) == FilterLoop(ms, 1, <<>>, min, max)

-----------------------------------------------------------------------------
(* Filtering: the specification.  A method text is made of up to             *)
(* MaxBodyLines lines, each a line of code or an indented line comment       *)
(* (which is a blank line once the comment is stripped).                     *)

BodyLineKinds == { <<"x">>, <<" ", "/", "/", "x">> }

BodyTexts == {JoinLines(ls) : ls \in UNION {[1..n -> BodyLineKinds] : n \in 0..MaxBodyLines}}

BatchRecords ==
    {MethodRecord("m", 1, Len(splitlines(c)), c, tokenize_code(c)) : c \in BodyTexts}

InitFilter ==
    /\ pc = "ready"
    /\ methods \in UNION {[1..n -> BatchRecords] : n \in 0..MaxMethods}
    /\ min_lines \in (0 - 1)..MaxThreshold
    /\ max_lines \in 0..MaxThreshold
    /\ cleaned = <<>>
    /\ IdleBrace /\ IdleTokenizer /\ IdleStripper /\ IdleExtractor

CallFilterInvalidMethods ==
    /\ pc = "ready"
    /\ cleaned' = filter_invalid_methods(methods, min_lines, max_lines)
    /\ pc' = "done"
    /\ UNCHANGED <<code, lines, start_line, end_line, text, tokens, src, stripped,
                   methods, min_lines, max_lines, decls, results>>

NextFilter == CallFilterInvalidMethods

SpecFilter == InitFilter /\ [][NextFilter]_vars

(* The elements of seq at the indices in S, in their order.                  *)
RECURSIVE Pick(_, _, _)
Pick(seq, S, k) ==
    IF k > Len(seq) THEN <<>>
    ELSE (IF k \in S THEN <<seq[k]>> ELSE <<>>) \o Pick(seq, S, k + 1)

(* The effective line count: the lines of the comment-stripped text that     *)
(* are not blank.                                                            *)
EffectiveLineCount(m) ==
    LET L == splitlines(_strip_java_comments_for_check(m.original_code))
    IN  Cardinality({k \in 1..Len(L) : Ink(L[k]) # <<>>})

(* C4: a record is kept if and only if its effective line count c is not 0   *)
(* and min_lines <= c <= max_lines.                                          *)
C4_KeptIffWithinBounds ==
    pc = "done" =>
        cleaned = Pick(methods,
                       {k \in 1..Len(methods) :
                          LET c == EffectiveLineCount(methods[k])
                          IN  c # 0 /\ min_lines <= c /\ c <= max_lines},
                       1)

(* A batch with a comment-only record dropped under min_lines <= 0 and a     *)
(* record of exactly min_lines = max_lines lines kept.                       *)
C4_Witness ==
    /\ pc = "done"
    /\ Len(methods) = 2 /\ Len(cleaned) = 1
    /\ \E k \in 1..2 : EffectiveLineCount(methods[k]) = 0 /\ methods[k].original_code # <<>>
    /\ \E k \in 1..2 : EffectiveLineCount(methods[k]) = max_lines
    /\ min_lines <= 0

(* C5: the call leaves its arguments as they are and returns the records of  *)
(* the batch that it keeps, each as it was given, in the order given and as  *)
(* often as given.                                                           *)
C5_OrderPreservingSubsequence ==
    [][ (pc = "ready" /\ pc' = "done") =>
          /\ methods' = methods
          /\ cleaned' = Pick(methods,
                             {k \in 1..Len(methods) :
                                \E i \in 1..Len(cleaned') : cleaned'[i] = methods[k]},
                             1) ]_vars

(* A batch whose two equal records are both kept, comments and all.          *)
C5_Witness ==
    /\ pc = "done"
    /\ Len(methods) = 2 /\ methods[1] = methods[2]
    /\ cleaned = methods
    /\ contains(methods[1].original_code, "/")

-----------------------------------------------------------------------------
(* extract_methods_from_file(filepath), craw_java_method.py:177-206.  The    *)
(* file's text and the MethodDeclaration nodes of its parse are inputs: a    *)
(* node has a name and a position, None or a line.                           *)

(* Python's truth value of None or an int.                                   *)
Truthy(v) == v # None /\ ~(IsInt(v) /\ v.val = 0)

(* ls[a:b] for 0 <= a                                                        *)
Slice(ls, a, b) == SubSeq(ls, a + 1, IF b < Len(ls) THEN b ELSE Len(ls))

(* Lines 189-205 for one node: the record appended, <<>> when the node is    *)
(* skipped, the exception when _brace_matched_end raises.                    *)
RecordOfWithShortSlice(ls, node) ==
    LET start == node.position
        end == IF Truthy(start) THEN _brace_matched_end(ls, start.val) ELSE None
    IN  IF end = IndexError THEN <<IndexError>>
        ELSE IF ~Truthy(start) \/ ~Truthy(end) THEN <<>>
        ELSE LET original_code == JoinLines(Slice(ls, start.val - 1, end.val - 1))
             IN  <<MethodRecord(node.name, start.val, end.val, original_code,
                                tokenize_code(original_code))>>

RecordOf(ls, node) ==
    LET start == node.position
        end == IF Truthy(start) THEN _brace_matched_end(ls, start.val) ELSE None
    IN  IF end = IndexError THEN <<IndexError>>
        ELSE IF ~Truthy(start) \/ ~Truthy(end) THEN <<>>
        ELSE LET original_code == JoinLines(Slice(ls, start.val - 1, end.val))
             IN  <<MethodRecord(node.name, start.val, end.val, original_code,
                                tokenize_code(original_code))>>

(* The loop of lines 188-205 from the k-th node on; an exception ends it.    *)
RECURSIVE ExtractLoop(_, _, _, _)
ExtractLoop(ls, nodes, k, out) ==
    IF k > Len(nodes) THEN out
    ELSE LET r == RecordOf(ls, nodes[k])
         IN  IF r = <<IndexError>> THEN r
             ELSE ExtractLoop(ls, nodes, k + 1, out \o r)

(* Lines 186-206, the file read and parsed.                                  *)
extract_methods_from_file(file_code, nodes) ==
    ExtractLoop(splitlines(file_code), nodes, 1, <<>>)

-----------------------------------------------------------------------------
(* Extraction: the specification.                                            *)

FileAlphabet == {"{", "}", "x", "\n"}

Positions == {None} \cup {Int_(n) : n \in 1..MaxDeclLine}

Nodes == [name : {"m"}, position : Positions]

InitExtract ==
    /\ pc = "ready"
    /\ code \in Texts(FileAlphabet, MaxFile)
    /\ lines = splitlines(code)
    /\ decls \in UNION {[1..n -> Nodes] : n \in 0..MaxDecls}
    /\ results = <<>>
    /\ start_line = 1 /\ end_line = None
    /\ IdleTokenizer /\ IdleStripper /\ IdleFilter

(* Lines 186-206: the file parses and its declarations are visited.          *)
CallExtractMethods ==
    /\ pc = "ready"
    /\ results' = extract_methods_from_file(code, decls)
    /\ pc' = "done"
    /\ UNCHANGED <<code, lines, start_line, end_line, text, tokens, src, stripped,
                   methods, min_lines, max_lines, cleaned, decls>>

(* Lines 179-184: reading or parsing the file fails.                         *)
ParseFails ==
    /\ pc = "ready"
    /\ results' = <<>>
    /\ pc' = "unparseable"
    /\ UNCHANGED <<code, lines, start_line, end_line, text, tokens, src, stripped,
                   methods, min_lines, max_lines, cleaned, decls>>

NextExtract == CallExtractMethods \/ ParseFails

SpecExtract == InitExtract /\ [][NextExtract]_vars

(* The lines a..b (1-based, inclusive) joined by newlines.                   *)
RECURSIVE SliceText(_, _, _)
SliceText(ls, a, b) ==
    IF a > b THEN <<>>
    ELSE IF a = b THEN ls[a]
    ELSE SliceText(ls, a, b - 1) \o <<"\n">> \o ls[b]

(* The declarations that have a start line and a boundary, in visiting order. *)
Bounded ==
    Pick([k \in 1..Len(decls) |-> k],
         {k \in 1..Len(decls) :
            /\ decls[k].position # None
            /\ IsInt(_brace_matched_end(lines, decls[k].position.val))},
         1)

(* C7: the records are those of the declarations that have a start line and  *)
(* a boundary, in visiting order, nothing is raised, and each record has     *)
(* end_line = _brace_matched_end(lines, start_line), end_line >= start_line  *)
(* >= 1, original_code the newline-joined lines start_line..end_line, and    *)
(* code_tokens = tokenize_code(original_code).                               *)
C7_RecordsOfBoundedDeclarations ==
    pc = "done" =>
        /\ \A i \in 1..Len(results) : results[i] # IndexError
        /\ Len(results) = Len(Bounded)
        /\ \A i \in 1..Len(results) :
             LET r == results[i]
                 d == decls[Bounded[i]]
             IN  /\ r.method_name = d.name
                 /\ Int_(r.start_line) = d.position
                 /\ Int_(r.end_line) = _brace_matched_end(lines, r.start_line)
                 /\ r.end_line >= r.start_line /\ r.start_line >= 1
                 /\ r.original_code = SliceText(lines, r.start_line, r.end_line)
                 /\ r.code_tokens = tokenize_code(r.original_code)

(* A declaration without a boundary skipped, followed by one whose body      *)
(* spans several lines.                                                      *)
C7_Witness ==
    /\ pc = "done"
    /\ Len(decls) = 2 /\ Len(results) = 1
    /\ decls[1].position # None
    /\ Bounded = <<2>>
    /\ results[1].end_line > results[1].start_line

=============================================================================
